---- MODULE Spec2Model ----
(***************************************************************************)
(* A model of src/CRD/kmt_sracper.py: the KMTScraper class.                *)
(*                                                                         *)
(* Python strings are sequences of one-character strings.  A URL string is *)
(* abstracted to the three features the code reads: whether it starts with *)
(* "http" (and whether it starts with BASE_URL), its path, and the list of *)
(* its "/start/<digits>" segments in left-to-right order.                  *)
(***************************************************************************)
EXTENDS Integers, Sequences, FiniteSets, TLC

VARIABLES
    collected_reactions, \* self.collected_reactions (list of ReactionData)
    current_url,         \* scrape(): local current_url (a URL or None)
    seen_urls,           \* scrape(): local seen_urls
    pages_scraped,       \* scrape(): local pages_scraped
    max_pages,           \* scrape(): argument max_pages
    html,                \* scrape(): local html, the last _fetch_page result
    response,            \* _fetch_page(): what session.get gave last
    pc,                  \* position of the caller / of scrape()
    brk,                 \* which break statement ended the loop, if any
    ret,                 \* the value the last scrape() call returned
    fetched,             \* history: URLs passed to _fetch_page in this call
    exposed,             \* history: <<string, url>>, first page exposing it
    clock,               \* datetime.now(): number of pages processed so far
    budget,              \* sum of the max_pages arguments of all calls
    raw,                 \* input of _parse_smiles_string
    parsed,              \* its result
    pg_anchors,          \* input of _find_next_page_url: soup's anchors
    pg_url,              \* input of _find_next_page_url: current_url
    pg_next              \* its result

vars == <<collected_reactions, current_url, seen_urls, pages_scraped, max_pages,
          html, response, pc, brk, ret, fetched, exposed, clock, budget,
          raw, parsed, pg_anchors, pg_url, pg_next>>

crawlVars == <<collected_reactions, current_url, seen_urls, pages_scraped,
               max_pages, html, response, pc, brk, ret, fetched, exposed, clock,
               budget>>

parseVars == <<raw, parsed>>

pageVars == <<pg_anchors, pg_url, pg_next>>

(***************************************************************************)
(* Bounds of the model.                                                    *)
(***************************************************************************)
MaxPagesArg == 3

MaxBudget == 4

MaxLen == 5

MaxAnchors == 2

(***************************************************************************)
(* Python values.                                                          *)
(***************************************************************************)
None == [none |-> TRUE]

Unset == [unset |-> TRUE]

RECURSIVE SplitFrom(_, _, _, _)
SplitFrom(s, sep, i, cur) ==
    IF i > Len(s) THEN <<cur>>
    ELSE IF i + Len(sep) - 1 <= Len(s) /\ SubSeq(s, i, i + Len(sep) - 1) = sep
         THEN <<cur>> \o SplitFrom(s, sep, i + Len(sep), <<>>)
         ELSE SplitFrom(s, sep, i + 1, Append(cur, s[i]))

\* str.split(sep) for a non-empty separator
Split(s, sep) == SplitFrom(s, sep, 1, <<>>)

IsSpace(c) == c = " "

RECURSIVE LStrip(_)
LStrip(s) == IF s # <<>> /\ IsSpace(Head(s)) THEN LStrip(Tail(s)) ELSE s

RECURSIVE RStrip(_)
RStrip(s) ==
    IF s # <<>> /\ IsSpace(s[Len(s)]) THEN RStrip(SubSeq(s, 1, Len(s) - 1)) ELSE s

\* str.strip()
Strip(s) == RStrip(LStrip(s))

\* c in s, for a character c
HasChar(c, s) == \E i \in 1..Len(s) : s[i] = c

\* sub in s, for a string sub
Contains(sub, s) ==
    \E i \in 1..(Len(s) - Len(sub) + 1) : SubSeq(s, i, i + Len(sub) - 1) = sub

LowerChar(c) ==
    CASE c = "N" -> "n"
      [] c = "E" -> "e"
      [] c = "X" -> "x"
      [] c = "T" -> "t"
      [] c = "P" -> "p"
      [] OTHER -> c

\* str.lower()
Lower(s) == [i \in 1..Len(s) |-> LowerChar(s[i])]

Range(s) == {s[i] : i \in 1..Len(s)}

(***************************************************************************)
(* _parse_smiles_string                                                    *)
(***************************************************************************)
Fragments(field) == SelectSeq(Split(field, <<".">>), LAMBDA f : f # <<>>)

PartsToDict(parts) ==
    [reactants |-> Fragments(parts[1]),
     reagents  |-> Fragments(parts[2]),
     products  |-> Fragments(parts[3])]

ParseSmilesLast(smiles) ==
    IF smiles = <<>> THEN None
    ELSE LET parts == Split(smiles, <<">">>)
         IN  IF Len(parts) < 3 THEN None
             ELSE [reactants |-> Fragments(parts[1]),
                   reagents  |-> Fragments(parts[2]),
                   products  |-> Fragments(parts[Len(parts)])]

ParseSmiles(smiles) ==
    IF smiles = <<>> THEN None
    ELSE LET parts == Split(smiles, <<">">>)
         IN  IF Len(parts) < 3
             THEN LET two == Split(smiles, <<">", ">">>)
                  IN  IF Len(two) = 2
                      THEN PartsToDict(<<two[1], <<>>, two[2]>>)
                      ELSE None
             ELSE PartsToDict(parts)

(***************************************************************************)
(* URLs.  BASE_URL itself starts with "http".                              *)
(***************************************************************************)
PageStep == 10

\* _build_url(start): BASE_URL/data/reaction/doi/<doi>/start/<start>
BuildUrl(start) == [scheme |-> "base", path |-> "doi", starts |-> <<start>>]

\* href.startswith("http")
StartsWithHttp(href) == href.scheme \in {"base", "http"}

\* href if href.startswith("http") else f"{self.BASE_URL}{href}"
Qualify(href) ==
    IF StartsWithHttp(href) THEN href ELSE [href EXCEPT !.scheme = "base"]

\* re.search(r"/start/(\d+)", current_url): the first match, if any
StartMatch(url) == IF url.starts = <<>> THEN None ELSE [group1 |-> url.starts[1]]

(***************************************************************************)
(* _find_next_page_url.  anchors is soup.find_all("a", href=True), each    *)
(* anchor with its text and its href, in document order.                   *)
(***************************************************************************)
NextWord == <<"n", "e", "x", "t">>

IsNextLink(link) == Contains(NextWord, Lower(Strip(link.text)))

FindNextPageUrlStep1(anchors, url) ==
    LET hits == {i \in 1..Len(anchors) : IsNextLink(anchors[i])}
    IN  IF hits # {}
        THEN LET first == CHOOSE i \in hits : \A j \in hits : i <= j
             IN  Qualify(anchors[first].href)
        ELSE LET match == StartMatch(url)
             IN  IF match # None THEN BuildUrl(match.group1 + 1) ELSE None

FindNextPageUrl(anchors, url) ==
    LET hits == {i \in 1..Len(anchors) : IsNextLink(anchors[i])}
    IN  IF hits # {}
        THEN LET first == CHOOSE i \in hits : \A j \in hits : i <= j
             IN  Qualify(anchors[first].href)
        ELSE LET match == StartMatch(url)
             IN  IF match # None THEN BuildUrl(match.group1 + PageStep) ELSE None

(***************************************************************************)
(* Extraction.  A page text is seen through what the three strategies read *)
(* from it: the data-reaction-smiles attribute values, the group-1 matches *)
(* of the three script patterns, the stripped texts of the table cells,    *)
(* and its anchors.  empty is TRUE for the empty string only.              *)
(***************************************************************************)
SmilesChars ==
    {"A", "B", "C", "D", "a", "b", "0", "1", "[", "]", "(", ")", "=", "#",
     "@", "+", "-", "\\", "/", ".", ">"}

ExtractFromDataAttributes(page) ==
    LET kept == SelectSeq(page.attrs, LAMBDA v : v # <<>>)
    IN  [i \in 1..Len(kept) |-> Strip(kept[i])]

ExtractFromJavascript(page) == SelectSeq(page.js, LAMBDA m : HasChar(">", m))

ExtractFromTables(page) ==
    SelectSeq(page.cells,
              LAMBDA text : /\ HasChar(">", text)
                            /\ HasChar(".", text)
                            /\ text # <<>>
                            /\ Range(text) \subseteq SmilesChars)

\* the set all_smiles of _process_page
AllSmiles(page) ==
    Range(ExtractFromDataAttributes(page))
        \cup Range(ExtractFromJavascript(page))
        \cup Range(ExtractFromTables(page))

\* the orders in which "for smiles in all_smiles" can run
Orders(S) ==
    {f \in [1..Cardinality(S) -> S] : \A i, j \in DOMAIN f : f[i] = f[j] => i = j}

AcceptedParsedOnly(p) == p # None

\* parsed and parsed["products"]
Accepted(p) == p # None /\ p.products # <<>>

RECURSIVE ReactionsOf(_, _, _)
ReactionsOf(order, url, timestamp) ==
    IF order = <<>> THEN <<>>
    ELSE LET smiles == Head(order)
             p == ParseSmiles(smiles)
             rest == ReactionsOf(Tail(order), url, timestamp)
         IN  IF Accepted(p)
             THEN <<[reaction_smiles |-> smiles,
                     reactant_smiles |-> p.reactants,
                     reagent_smiles  |-> p.reagents,
                     product_smiles  |-> p.products,
                     source_url      |-> url,
                     scraped_at      |-> timestamp]>> \o rest
             ELSE rest

\* _process_page(html, url), with the set's iteration order made explicit
ProcessPage(page, url, timestamp, order) == ReactionsOf(order, url, timestamp)

(***************************************************************************)
(* scrape(): merging one page's reactions into self.collected_reactions.   *)
(***************************************************************************)
SmilesOf(collected) == {collected[i].reaction_smiles : i \in 1..Len(collected)}

AddReactionNoCheck(collected, r) == Append(collected, r)

AddReactionOverwrite(collected, r) ==
    IF r.reaction_smiles \notin SmilesOf(collected)
    THEN Append(collected, r)
    ELSE [i \in 1..Len(collected) |->
            IF collected[i].reaction_smiles = r.reaction_smiles
            THEN r ELSE collected[i]]

\* if r.reaction_smiles not in {...}: self.collected_reactions.append(r)
AddReaction(collected, r) ==
    IF r.reaction_smiles \notin SmilesOf(collected)
    THEN Append(collected, r)
    ELSE collected

RECURSIVE MergeReactions(_, _)
MergeReactions(collected, reactions) ==
    IF reactions = <<>> THEN collected
    ELSE MergeReactions(AddReaction(collected, Head(reactions)), Tail(reactions))

(***************************************************************************)
(* _fetch_page.  A response is what session.get and raise_for_status give: *)
(* a RequestException, or a response with its text.                        *)
(***************************************************************************)
PageOf(attrs, js, cells, anchors) ==
    [empty |-> FALSE, attrs |-> attrs, js |-> js, cells |-> cells,
     anchors |-> anchors]

\* the empty string
EmptyText ==
    [empty |-> TRUE, attrs |-> <<>>, js |-> <<>>, cells |-> <<>>, anchors |-> <<>>]

\* session.get or raise_for_status raised a RequestException
Failure == [exc |-> TRUE, text |-> EmptyText]

BlankPage == PageOf(<<>>, <<>>, <<>>, <<>>)

FetchPageKeepGoing(resp) == IF resp.exc THEN BlankPage ELSE resp.text

\* try: ... return response.text / except RequestException: return None
FetchPage(resp) == IF resp.exc THEN None ELSE resp.text

\* the truth value of html in "if not html"
Truthy(h) == h # None /\ ~h.empty

LoopCondOffByOne(url, n, limit) == url # None /\ n <= limit

\* while current_url and pages_scraped < max_pages
LoopCond(url, n, limit) == url # None /\ n < limit

CycleDetectedNever(url, seen) == FALSE

\* if current_url in seen_urls
CycleDetected(url, seen) == url \in seen

(***************************************************************************)
(* The pages the modelled site serves.                                     *)
(***************************************************************************)
sAB == <<"A", ">", ">", "B">>

sABpadded == <<" ", "A", ">", ">", "B", " ">>

sNoProduct == <<"A", ">", ">">>

sDotProduct == <<"A", ">", ">", ".">>

sThree == <<"A", ".", "B", ">", "A", ">", "B">>

sBA == <<"B", ">", ">", "A", ".", "A">>

sProse == <<"A", " ", ">", ".", "B">>

sPlain == <<"A", "B">>

sBlank == <<" ", " ">>

tNext == <<"N", "e", "x", "t">>

tNEXT == <<" ", "N", "E", "X", "T", " ", ">">>

tPrev == <<"P", "r", "e", "v">>

StartUrl == BuildUrl(0)

hrefStart == [scheme |-> "", path |-> "doi", starts |-> <<0>>]

hrefPrev == [scheme |-> "", path |-> "x", starts |-> <<5>>]

hrefOther == [scheme |-> "http", path |-> "x", starts |-> <<>>]

\* a "Next" anchor back to the first page; the same string three times
PageA ==
    PageOf(<<sABpadded, sNoProduct>>, <<sAB, sPlain>>, <<>>,
           <<[text |-> tNext, href |-> hrefStart]>>)

\* a "NEXT" anchor to another site; strings in table cells
PageB ==
    PageOf(<<>>, <<>>, <<sThree, sDotProduct, sProse>>,
           <<[text |-> tPrev, href |-> hrefPrev],
             [text |-> tNEXT, href |-> hrefOther]>>)

\* no anchor
PageC == PageOf(<<sBlank, sAB>>, <<>>, <<>>, <<>>)

\* no anchor; three strings, one per strategy
PageD == PageOf(<<sBA>>, <<sAB>>, <<sThree>>, <<>>)

Pages == {EmptyText, PageA, PageB, PageC, PageD}

Responses == {Failure} \cup {[exc |-> FALSE, text |-> p] : p \in Pages}

(***************************************************************************)
(* The crawl: KMTScraper() and calls of scrape().                          *)
(***************************************************************************)
InitCrawl ==
    /\ collected_reactions = <<>>
    /\ current_url = None
    /\ seen_urls = {}
    /\ pages_scraped = 0
    /\ max_pages = 0
    /\ html = Unset
    /\ response = Unset
    /\ pc = "idle"
    /\ brk = "none"
    /\ ret = Unset
    /\ fetched = <<>>
    /\ exposed = {}
    /\ clock = 0
    /\ budget = 0

InitParse == raw = <<>> /\ parsed = Unset

InitPage == pg_anchors = <<>> /\ pg_url = StartUrl /\ pg_next = Unset

Init == InitCrawl /\ InitParse /\ InitPage

\* scrape(max_pages = m): lines 162-164
Call(m) ==
    /\ pc = "idle"
    /\ budget + m <= MaxBudget
    /\ budget' = budget + m
    /\ max_pages' = m
    /\ current_url' = BuildUrl(0)
    /\ seen_urls' = {}
    /\ pages_scraped' = 0
    /\ html' = Unset
    /\ response' = Unset
    /\ brk' = "none"
    /\ ret' = Unset
    /\ fetched' = <<>>
    /\ pc' = "loop"
    /\ UNCHANGED <<collected_reactions, exposed, clock>>

\* the while condition is false
LoopExit ==
    /\ pc = "loop"
    /\ ~LoopCond(current_url, pages_scraped, max_pages)
    /\ pc' = "done"
    /\ UNCHANGED <<collected_reactions, current_url, seen_urls, pages_scraped,
                   max_pages, html, response, brk, ret, fetched, exposed, clock,
                   budget>>

\* lines 167-168
CycleBreak ==
    /\ pc = "loop"
    /\ LoopCond(current_url, pages_scraped, max_pages)
    /\ CycleDetected(current_url, seen_urls)
    /\ brk' = "cycle"
    /\ pc' = "done"
    /\ UNCHANGED <<collected_reactions, current_url, seen_urls, pages_scraped,
                   max_pages, html, response, ret, fetched, exposed, clock,
                   budget>>

\* lines 170-175, when html is None or ""
FetchBreak(resp) ==
    /\ pc = "loop"
    /\ LoopCond(current_url, pages_scraped, max_pages)
    /\ ~CycleDetected(current_url, seen_urls)
    /\ ~Truthy(FetchPage(resp))
    /\ seen_urls' = seen_urls \cup {current_url}
    /\ fetched' = Append(fetched, current_url)
    /\ html' = FetchPage(resp)
    /\ response' = resp
    /\ brk' = "nohtml"
    /\ pc' = "done"
    /\ UNCHANGED <<collected_reactions, current_url, pages_scraped, max_pages,
                   ret, exposed, clock, budget>>

\* lines 170-186: one whole iteration of the loop
ScrapePage(resp) ==
    /\ pc = "loop"
    /\ LoopCond(current_url, pages_scraped, max_pages)
    /\ ~CycleDetected(current_url, seen_urls)
    /\ Truthy(FetchPage(resp))
    /\ LET page == FetchPage(resp)
       IN  \E order \in Orders(AllSmiles(page)) :
             /\ seen_urls' = seen_urls \cup {current_url}
             /\ fetched' = Append(fetched, current_url)
             /\ html' = page
             /\ response' = resp
             /\ collected_reactions' =
                    MergeReactions(collected_reactions,
                                   ProcessPage(page, current_url, clock, order))
             /\ exposed' = exposed \cup
                    {<<s, current_url>> :
                        s \in {t \in AllSmiles(page) :
                                 \A e \in exposed : e[1] # t}}
             /\ clock' = clock + 1
             /\ current_url' = FindNextPageUrl(page.anchors, current_url)
             /\ pages_scraped' = pages_scraped + 1
    /\ UNCHANGED <<max_pages, pc, brk, ret, budget>>

\* line 189
Return ==
    /\ pc = "done"
    /\ ret' = collected_reactions
    /\ pc' = "idle"
    /\ UNCHANGED <<collected_reactions, current_url, seen_urls, pages_scraped,
                   max_pages, html, response, brk, fetched, exposed, clock,
                   budget>>

LoopStep ==
    \/ LoopExit
    \/ CycleBreak
    \/ \E resp \in Responses : FetchBreak(resp)
    \/ \E resp \in Responses : ScrapePage(resp)
    \/ Return

Next ==
    \/ (\E m \in 0..MaxPagesArg : Call(m)) /\ UNCHANGED <<parseVars, pageVars>>
    \/ LoopExit /\ UNCHANGED <<parseVars, pageVars>>
    \/ CycleBreak /\ UNCHANGED <<parseVars, pageVars>>
    \/ (\E resp \in Responses : FetchBreak(resp))
           /\ UNCHANGED <<parseVars, pageVars>>
    \/ (\E resp \in Responses : ScrapePage(resp))
           /\ UNCHANGED <<parseVars, pageVars>>
    \/ Return /\ UNCHANGED <<parseVars, pageVars>>

Spec == Init /\ [][Next]_vars

\* scrape() runs to completion once called: the fetch has a timeout and the
\* politeness delay is finite
FairSpec == Spec /\ WF_vars(LoopStep /\ UNCHANGED <<parseVars, pageVars>>)

(***************************************************************************)
(* _parse_smiles_string applied to every string over Alphabet of length at *)
(* most MaxLen.                                                            *)
(***************************************************************************)
Alphabet == {"A", "B", ">", "."}

Strings == UNION {[1..n -> Alphabet] : n \in 0..MaxLen}

ParseInit == InitCrawl /\ InitPage /\ raw \in Strings /\ parsed = Unset

DoParse ==
    /\ parsed = Unset
    /\ parsed' = ParseSmiles(raw)
    /\ UNCHANGED <<raw, crawlVars, pageVars>>

ParseNext == DoParse

ParseSpec == ParseInit /\ [][ParseNext]_vars

(***************************************************************************)
(* _find_next_page_url applied to every list of at most MaxAnchors anchors *)
(* and every current URL of TestUrls.                                      *)
(***************************************************************************)
Texts == {tNext, tNEXT, tPrev, <<>>}

hrefAbs == [scheme |-> "base", path |-> "doi", starts |-> <<20>>]

Hrefs == {hrefStart, hrefPrev, hrefOther, hrefAbs}

Anchors == [text : Texts, href : Hrefs]

AnchorLists == UNION {[1..n -> Anchors] : n \in 0..MaxAnchors}

TestUrls ==
    {StartUrl, BuildUrl(20), hrefOther,
     [scheme |-> "base", path |-> "x", starts |-> <<5, 20>>],
     [scheme |-> "http", path |-> "doi", starts |-> <<20>>]}

PageInit ==
    /\ InitCrawl
    /\ InitParse
    /\ pg_url \in TestUrls
    /\ pg_anchors \in AnchorLists
    /\ pg_next = Unset

Resolve ==
    /\ pg_next = Unset
    /\ pg_next' = FindNextPageUrl(pg_anchors, pg_url)
    /\ UNCHANGED <<pg_anchors, pg_url, crawlVars, parseVars>>

PageNext == Resolve

PageSpec == PageInit /\ [][PageNext]_vars

(***************************************************************************)
(* Properties.                                                             *)
(***************************************************************************)
MinOf(S) == CHOOSE x \in S : \A y \in S : x <= y

Last(s) == s[Len(s)]

\* The splitting rule as the specification words it, by character
\* positions: the fields lie between the first three ">" characters, and a
\* fragment is a maximal run of characters other than ".".
GtPositions(s) == {i \in 1..Len(s) : s[i] = ">"}

RunStarts(f) == {i \in 1..Len(f) : f[i] # "." /\ (i = 1 \/ f[i - 1] = ".")}

RunEnd(f, i) == MinOf({j \in i..Len(f) : j = Len(f) \/ f[j + 1] = "."})

RuleFragments(f) ==
    LET st == RunStarts(f)
    IN  [k \in 1..Cardinality(st) |->
            LET i == CHOOSE x \in st : Cardinality({y \in st : y < x}) = k - 1
            IN  SubSeq(f, i, RunEnd(f, i))]

RuleParse(s) ==
    LET gt == GtPositions(s)
        dbl == {i \in 1..(Len(s) - 1) : s[i] = ">" /\ s[i + 1] = ">"}
    IN  IF s = <<>> THEN None
        ELSE IF Cardinality(gt) >= 2
        THEN LET p1 == MinOf(gt)
                 p2 == MinOf(gt \ {p1})
                 p3 == IF Cardinality(gt) >= 3 THEN MinOf(gt \ {p1, p2})
                       ELSE Len(s) + 1
             IN  [reactants |-> RuleFragments(SubSeq(s, 1, p1 - 1)),
                  reagents  |-> RuleFragments(SubSeq(s, p1 + 1, p2 - 1)),
                  products  |-> RuleFragments(SubSeq(s, p2 + 1, p3 - 1))]
        ELSE IF dbl # {} /\ \A i \in dbl : i < MinOf(dbl) + 2
        THEN [reactants |-> RuleFragments(SubSeq(s, 1, MinOf(dbl) - 1)),
              reagents  |-> <<>>,
              products  |-> RuleFragments(SubSeq(s, MinOf(dbl) + 2, Len(s)))]
        ELSE None

\* C1: the accumulated list never holds two records with the same
\* reaction_smiles, whatever pages were fetched and however their candidate
\* strings overlap.
DedupInvariant ==
    \A i, j \in 1..Len(collected_reactions) :
        i # j => collected_reactions[i].reaction_smiles
                    # collected_reactions[j].reaction_smiles

\* C1 witness: the page just processed exposed a string that an earlier page
\* had already stored.
DedupReexposed ==
    /\ pc = "loop"
    /\ pages_scraped >= 1
    /\ \E i \in 1..Len(collected_reactions) :
          /\ collected_reactions[i].reaction_smiles \in AllSmiles(html)
          /\ collected_reactions[i].scraped_at < clock - 1

\* C2: every stored record has a non-empty product_smiles, and no string
\* whose parse fails or whose products field holds no fragment is stored.
ProductNonEmpty ==
    \A i \in 1..Len(collected_reactions) :
        LET r == collected_reactions[i]
        IN  /\ r.product_smiles # <<>>
            /\ RuleParse(r.reaction_smiles) # None
            /\ RuleParse(r.reaction_smiles).products # <<>>
            /\ r.reaction_smiles \notin {sNoProduct, sDotProduct, sPlain, <<>>}

\* C2 witness: pages exposing "A>>" or "A>>." were processed and records were
\* stored.
ProductlessCandidateSeen ==
    /\ collected_reactions # <<>>
    /\ \E e \in exposed : e[1] = sNoProduct
    /\ \E e \in exposed : e[1] = sDotProduct

NoUrlFetchedTwice ==
    \A i, j \in 1..Len(fetched) : i # j => fetched[i] # fetched[j]

\* C3: within one crawl no URL is fetched twice, and when current_url is
\* already in seen_urls the loop ends in its next step, with no fetch and no
\* record added.
TerminationOnCycle ==
    /\ []NoUrlFetchedTwice
    /\ [][(pc = "loop" /\ current_url \in seen_urls)
            => /\ pc' = "done"
               /\ fetched' = fetched
               /\ collected_reactions' = collected_reactions]_vars

\* C3 witness: the loop ended by the cycle check.
CycleStopped == pc = "done" /\ brk = "cycle" /\ current_url \in seen_urls

\* C4: at most max_pages pages are fetched, the page counter never exceeds
\* max_pages, nothing is fetched when max_pages = 0, and every call of
\* scrape() leaves its loop.
BoundedCrawl ==
    /\ [](/\ Len(fetched) <= max_pages
          /\ pages_scraped <= max_pages
          /\ (max_pages = 0 => fetched = <<>>))
    /\ (pc = "loop" ~> pc = "done")

\* C4 witness: the loop was ended by the page limit alone, a fresh URL being
\* at hand.
StoppedByLimit ==
    /\ pc = "done"
    /\ brk = "none"
    /\ max_pages >= 2
    /\ pages_scraped = max_pages
    /\ current_url # None
    /\ current_url \notin seen_urls

\* C5: a failed fetch ends the loop at once with the records unchanged, and
\* scrape() then returns the accumulated records without another fetch.
FetchFailureGraceful ==
    /\ [][(pc = "loop" /\ fetched' # fetched /\ response'.exc)
            => /\ pc' = "done"
               /\ collected_reactions' = collected_reactions]_vars
    /\ [][pc = "done"
            => /\ pc' = "idle"
               /\ ret' = collected_reactions
               /\ fetched' = fetched
               /\ collected_reactions' = collected_reactions]_vars

\* C5 witness: scrape() returned records of earlier pages after a failed
\* fetch.
ReturnedAfterFailure ==
    /\ pc = "idle"
    /\ response # Unset
    /\ response.exc
    /\ pages_scraped >= 1
    /\ ret # Unset
    /\ ret # <<>>

sExample1 == <<"A", ".", "B", ">", "C", ">", "D">>

sExample2 == <<"A", ">", ">", "D">>

sExample3 ==
    <<"n", "o", "-", "s", "e", "p", "a", "r", "a", "t", "o", "r", "-",
      "h", "e", "r", "e">>

\* C6: _parse_smiles_string follows the splitting rule on every input, and
\* gives the three results the specification lists.
ParseFollowsRule ==
    /\ parsed # Unset => parsed = RuleParse(raw)
    /\ ParseSmiles(sExample1)
         = [reactants |-> <<<<"A">>, <<"B">>>>, reagents |-> <<<<"C">>>>,
            products |-> <<<<"D">>>>]
    /\ ParseSmiles(sExample2)
         = [reactants |-> <<<<"A">>>>, reagents |-> <<>>,
            products |-> <<<<"D">>>>]
    /\ ParseSmiles(sExample3) = None

\* C6 witness: "A>>B>", a string of four fields, was parsed: the second
\* field is empty and the fourth is ignored.
ParsedFourFields ==
    /\ raw = <<"A", ">", ">", "B", ">">>
    /\ parsed # Unset
    /\ parsed # None
    /\ parsed.reagents = <<>>
    /\ parsed.products = <<<<"B">>>>

\* The text contains "next", whatever the case of its letters.
SaysNext(text) ==
    \E i \in 1..(Len(text) - 3) :
        /\ text[i] \in {"n", "N"}
        /\ text[i + 1] \in {"e", "E"}
        /\ text[i + 2] \in {"x", "X"}
        /\ text[i + 3] \in {"t", "T"}

NextAnchors == {i \in 1..Len(pg_anchors) : SaysNext(pg_anchors[i].text)}

\* C7 as stated: the href of a "next" anchor is returned as it is; failing
\* that, a URL whose offset is that of a /start/<n> of the current URL plus
\* 10; None exactly when neither.
NextPageAsStated ==
    pg_next # Unset =>
        /\ NextAnchors # {} => \E i \in NextAnchors : pg_next = pg_anchors[i].href
        /\ (NextAnchors = {} /\ pg_url.starts # <<>>)
              => /\ pg_next # None
                 /\ \E k \in 1..Len(pg_url.starts) :
                       pg_next.starts = <<pg_url.starts[k] + 10>>
        /\ pg_next = None <=> (NextAnchors = {} /\ pg_url.starts = <<>>)

\* C7 amended: the href of the first "next" anchor is returned, with BASE_URL
\* put before it unless it starts with "http"; failing that, the URL built
\* from BASE_URL, the DOI and the first /start/<n> of the current URL plus
\* 10; None exactly when neither.
NextPageResolution ==
    pg_next # Unset =>
        /\ NextAnchors # {}
              => LET href == pg_anchors[MinOf(NextAnchors)].href
                 IN  pg_next = IF href.scheme = ""
                               THEN [scheme |-> "base", path |-> href.path,
                                     starts |-> href.starts]
                               ELSE href
        /\ (NextAnchors = {} /\ pg_url.starts # <<>>)
              => pg_next = [scheme |-> "base", path |-> "doi",
                            starts |-> <<pg_url.starts[1] + 10>>]
        /\ pg_next = None <=> (NextAnchors = {} /\ pg_url.starts = <<>>)

\* C7 witness: the second anchor says NEXT and has a relative href, and the
\* current URL has an offset.
NextPageRelativeHref ==
    /\ pg_next # Unset
    /\ Len(pg_anchors) = 2
    /\ pg_anchors[1].text = tPrev
    /\ pg_anchors[2].text = tNEXT
    /\ pg_anchors[2].href = hrefPrev
    /\ pg_url = BuildUrl(20)

\* C8: the accumulated list only grows at its end, stored records never
\* change, and each record's source_url is the first processed page that
\* exposed its reaction string.
FirstSeenWins ==
    /\ [][/\ Len(collected_reactions') >= Len(collected_reactions)
          /\ SubSeq(collected_reactions', 1, Len(collected_reactions))
                = collected_reactions]_vars
    /\ [](\A i \in 1..Len(collected_reactions) :
            <<collected_reactions[i].reaction_smiles,
              collected_reactions[i].source_url>> \in exposed)

\* C8 witness: the page just processed, at another URL, exposed the string of
\* a stored record.
LaterPageSameString ==
    /\ pc = "loop"
    /\ pages_scraped >= 2
    /\ \E i \in 1..Len(collected_reactions) :
          /\ collected_reactions[i].reaction_smiles \in AllSmiles(html)
          /\ collected_reactions[i].source_url # Last(fetched)

\* C9: when the loop has ended, current_url is absent, or the page limit is
\* reached, or a cycle was detected, or the fetch failed.
ExhaustiveTerminalConditions ==
    pc = "done" =>
        \/ current_url = None
        \/ pages_scraped = max_pages
        \/ brk = "cycle"
        \/ (brk = "nohtml" /\ response.exc)

\* C10: every call of scrape() starts from the first URL with nothing
\* visited, nothing counted and nothing accumulated.
CrawlInitialState ==
    (pc = "loop" /\ fetched = <<>> /\ brk = "none" /\ html = Unset) =>
        /\ current_url = BuildUrl(0)
        /\ seen_urls = {}
        /\ pages_scraped = 0
        /\ collected_reactions = <<>>

====
